---- MODULE Spec2Model ----
(***************************************************************************)
(* Model of the ImageCaptureUtil data collectors (app.py,                  *)
(* data_collector.py, data_collector_laptop.py): the sequence resolver,    *)
(* the capture writer, the crop rectangle computation, the configuration   *)
(* file and the two camera driving loops.                                  *)
(*                                                                         *)
(* File names are sequences of one-character strings, so that glob         *)
(* matching, splitext, split('_'), int() and the "04d" format are computed *)
(* character by character as the Python code computes them.                *)
(***************************************************************************)
EXTENDS Integers, Sequences, FiniteSets, TLC

(***************************************************************************)
(* Bounds of the model.                                                    *)
(***************************************************************************)
\* largest sequence number an entry of the initial folder carries
MaxSeq == 3
\* largest number of entries in the initial folder
MaxInitFiles == 1
\* number of save calls one process makes
MaxSaves == 2

(***************************************************************************)
(* Characters and strings.                                                 *)
(***************************************************************************)
DigitChars == <<"0", "1", "2", "3", "4", "5", "6", "7", "8", "9">>

IsDigit(c) == \E i \in 1..10 : DigitChars[i] = c

DigitVal(c) == (CHOOSE i \in 1..10 : DigitChars[i] = c) - 1

Max2(a, b) == IF a >= b THEN a ELSE b

Min2(a, b) == IF a <= b THEN a ELSE b

JpgExt == <<".", "j", "p", "g">>

PngExt == <<".", "p", "n", "g">>

RECURSIVE DecDigits(_)
\* decimal digits of n >= 0, most significant first (str(n))
DecDigits(n) ==
    IF n < 10 THEN <<DigitChars[n + 1]>>
    ELSE DecDigits(n \div 10) \o <<DigitChars[(n % 10) + 1]>>

RECURSIVE ZeroPad(_, _)
ZeroPad(s, width) == IF Len(s) >= width THEN s ELSE ZeroPad(<<"0">> \o s, width)

\* f"{seq_num:04d}": at least four digits, zero padded on the left
Format04d(n) == ZeroPad(DecDigits(n), 4)

\* the file name formatted as f"{prefix}_{seq_num}.jpg", without the padding
CaptureFileNameUnpadded(prefix, n) == prefix \o <<"_">> \o DecDigits(n) \o JpgExt

\* f"{prefix}_{seq_num:04d}.jpg"
CaptureFileName(prefix, n) == prefix \o <<"_">> \o Format04d(n) \o JpgExt

\* fnmatch of a directory entry against f"{prefix}_*.jpg"
GlobMatch(name, prefix) ==
    /\ Len(name) >= Len(prefix) + 1 + Len(JpgExt)
    /\ SubSeq(name, 1, Len(prefix) + 1) = prefix \o <<"_">>
    /\ SubSeq(name, Len(name) - Len(JpgExt) + 1, Len(name)) = JpgExt

\* index of the last occurrence of character c in s, 0 when there is none
LastIndexOf(s, c) ==
    LET hits == {i \in 1..Len(s) : s[i] = c}
    IN  IF hits = {} THEN 0 ELSE CHOOSE i \in hits : \A j \in hits : j <= i

\* os.path.splitext(filename)[0]: cut at the last dot (a leading dot is kept)
SplitExtRoot(name) ==
    LET i == LastIndexOf(name, ".")
    IN  IF i <= 1 THEN name ELSE SubSeq(name, 1, i - 1)

\* name_no_ext.split('_')[-1]: what follows the last underscore
LastUnderscorePart(s) == SubSeq(s, LastIndexOf(s, "_") + 1, Len(s))

RECURSIVE DigitsValue(_)
DigitsValue(s) ==
    IF s = <<>> THEN 0
    ELSE 10 * DigitsValue(SubSeq(s, 1, Len(s) - 1)) + DigitVal(s[Len(s)])

AllDigits(s) == s # <<>> /\ \A i \in 1..Len(s) : IsDigit(s[i])

\* int(num_part): an optional sign then decimal digits; anything else raises
\* ValueError (ok = FALSE)
PyInt(s) ==
    LET signed == s # <<>> /\ s[1] \in {"+", "-"}
        body   == IF signed THEN Tail(s) ELSE s
    IN  IF ~AllDigits(body) THEN [ok |-> FALSE, val |-> 0]
        ELSE [ok |-> TRUE,
              val |-> IF signed /\ s[1] = "-" THEN 0 - DigitsValue(body)
                      ELSE DigitsValue(body)]

\* the number the loop body of get_next_sequence_number reads out of one
\* globbed entry
ParsedNumber(name) == PyInt(LastUnderscorePart(SplitExtRoot(name)))

RECURSIVE SetMaxFlipped(_)
\* the fold with the comparison turned round: "if num < max_num: max_num = num"
SetMaxFlipped(S) ==
    IF S = {} THEN 0
    ELSE LET x == CHOOSE y \in S : TRUE IN Min2(x, SetMaxFlipped(S \ {x}))

RECURSIVE SetMax(_)
\* the fold "if num > max_num: max_num = num" starting from max_num = 0
SetMax(S) ==
    IF S = {} THEN 0
    ELSE LET x == CHOOSE y \in S : TRUE IN Max2(x, SetMax(S \ {x}))

\* the resolver counting the globbed files instead of taking their maximum
NextByCount(exists, entries, prefix) ==
    IF ~exists THEN 1
    ELSE Cardinality({f \in entries : GlobMatch(f, prefix)}) + 1

\* get_next_sequence_number(folder_path, prefix) on a folder that exists or
\* not and holds the entries `entries`
get_next_sequence_number(exists, entries, prefix) ==
    IF ~exists THEN 1
    ELSE LET matched == {f \in entries : GlobMatch(f, prefix)}
         IN  IF matched = {} THEN 1
             ELSE SetMax({ParsedNumber(f).val : f \in {g \in matched : ParsedNumber(g).ok}}) + 1

(***************************************************************************)
(* State.                                                                  *)
(***************************************************************************)
VARIABLES
    prefix,        \* class_name, the file name prefix
    folderExists,  \* os.path.exists(target_folder)
    files,         \* the entries of target_folder
    start,         \* the folder as it was before the first operation
    pc,            \* per process: "idle", or "resolved" between scan and write
    seqOf,         \* per process: seq_num of the save in progress
    last,          \* outcome of the latest resolver or save call
    assigned,      \* [proc, seq] of every save that wrote its file, in order
    deletions      \* number of capture files removed from outside

fsVars == <<prefix, folderExists, files, start, pc, seqOf, last, assigned, deletions>>

VARIABLES
    roi,     \* the sidebar numbers [off_x, off_y, crop_w, crop_h]
    frame,   \* [w, h] of the frame / image at hand
    calib,   \* [w, h] = (cam_w, cam_h), the calibration size of the laptop variant
    rect     \* the rectangle computed last

cropVars == <<roi, frame, calib, rect>>

VARIABLES
    camera_active,  \* st.session_state.camera_active (app.py)
    cap,            \* the camera handle: "None", "Opened", "NotOpened", "Released"
    loop            \* "page", "running" (inside while True), "ended", "raised"

camVars == <<camera_active, cap, loop>>

VARIABLES
    config_file,  \* config.json: [exists, toks], and the dictionary it was dumped of
    cfg,          \* outcome of the latest run of the configuration section
    edits,        \* number of runs caused by an edited number box
    damages       \* number of times config.json was damaged from outside

cfgVars == <<config_file, cfg, edits, damages>>

vars ==
    <<prefix, folderExists, files, start, pc, seqOf, last, assigned, deletions,
      roi, frame, calib, rect, camera_active, cap, loop, config_file, cfg, edits, damages>>

\* the processes that save into the class folder: process 1 alone in Spec,
\* both in SpecRace
Procs == {1, 2}

\* number of external deletions
MaxDeletes == 1

\* class names: "o" and "o_1" (a prefix that itself holds an underscore, as
\* the default "object_01" does)
Prefixes == {<<"o">>, <<"o", "_", "1">>}

\* capture files <prefix>_<NNNN>.jpg
CaptureNames(p) == {CaptureFileName(p, n) : n \in 1..MaxSeq}

\* other directory entries: another prefix, a non-numeric suffix, text
\* between prefix and digits, a negative number, no digits, another extension,
\* no underscore, unpadded digits
ForeignNames(p) ==
    {<<"x", "_">> \o Format04d(MaxSeq + 2) \o JpgExt,
     p \o <<"_", "a", "b", "c">> \o JpgExt,
     p \o <<"_", "e", "_">> \o Format04d(MaxSeq + 2) \o JpgExt,
     p \o <<"_", "-", "2">> \o JpgExt,
     p \o <<"_">> \o JpgExt,
     p \o <<"_">> \o Format04d(MaxSeq + 2) \o PngExt,
     p \o Format04d(MaxSeq + 2) \o JpgExt,
     p \o <<"_">> \o DecDigits(MaxSeq + 1) \o JpgExt}

EntryNames(p) == CaptureNames(p) \cup ForeignNames(p)

NoCall ==
    [op |-> "none", proc |-> 0, seq |-> 0, name |-> <<>>, wrote |-> FALSE,
     raised |-> FALSE, returned |-> FALSE, reported |-> FALSE,
     pre |-> {}, preExists |-> FALSE]

FsInit ==
    /\ prefix \in Prefixes
    /\ folderExists \in BOOLEAN
    /\ files \in {S \in SUBSET EntryNames(prefix) :
                    /\ Cardinality(S) <= MaxInitFiles
                    /\ (~folderExists => S = {})}
    /\ start = [exists |-> folderExists, files |-> files]
    /\ pc = [p \in Procs |-> "idle"]
    /\ seqOf = [p \in Procs |-> 0]
    /\ last = NoCall
    /\ assigned = <<>>
    /\ deletions = 0

(***************************************************************************)
(* Capture writer.                                                         *)
(***************************************************************************)
\* outcomes of the file system during one save
IoOutcomes == {"ok", "mkdir_fails", "write_fails"}

\* if not os.path.exists(folder): os.makedirs(folder, exist_ok=True)
\* os.makedirs raises OSError when the directory cannot be created
MkdirRaises(exists, io) == ~exists /\ io = "mkdir_fails"

\* cv2.imwrite(full_path, frame, ...): raises cv2.error on an empty image,
\* returns False (which the callers drop) when the file cannot be written
Cv2Imwrite(io, emptyImage) ==
    [raised |-> emptyImage, wrote |-> ~emptyImage /\ io = "ok"]

\* image_pil.save(full_path, "JPEG", quality=quality): raises OSError when the
\* file cannot be written
PilSave(io, emptyImage) ==
    [raised |-> io # "ok", wrote |-> io = "ok"]

Write(writer, io, emptyImage) ==
    IF writer = "cv2" THEN Cv2Imwrite(io, emptyImage) ELSE PilSave(io, emptyImage)

\* the statements of save_frame_to_disk / save_frame / save_image up to the
\* file name: make the folder, resolve the sequence number
SaveResolve(exists, entries, pfx, io) ==
    IF MkdirRaises(exists, io)
    THEN [raised |-> TRUE, exists |-> exists, seq |-> 0, name |-> <<>>]
    ELSE LET n == get_next_sequence_number(TRUE, entries, pfx)
         IN  [raised |-> FALSE, exists |-> TRUE, seq |-> n,
              name |-> CaptureFileName(pfx, n)]

\* the whole save routine run without interruption: the record of what it did
SaveCall(p, exists, entries, pfx, writer, io, emptyImage) ==
    LET r == SaveResolve(exists, entries, pfx, io)
        w == Write(writer, io, emptyImage)
    IN  IF r.raised
        THEN [op |-> "save", proc |-> p, seq |-> 0, name |-> <<>>, wrote |-> FALSE,
              raised |-> TRUE, returned |-> FALSE, reported |-> FALSE,
              pre |-> entries, preExists |-> exists]
        ELSE [op |-> "save", proc |-> p, seq |-> r.seq, name |-> r.name,
              wrote |-> w.wrote, raised |-> w.raised, returned |-> ~w.raised,
              reported |-> ~w.raised, pre |-> entries, preExists |-> exists]

\* the folder after a save call
FolderAfter(call, exists, entries) ==
    [exists |-> exists \/ ~(call.raised /\ call.seq = 0),
     files  |-> IF call.wrote THEN entries \cup {call.name} ELSE entries]

Saves == Len(assigned)

DoSave(p, writer, io, emptyImage) ==
    LET call  == SaveCall(p, folderExists, files, prefix, writer, io, emptyImage)
        after == FolderAfter(call, folderExists, files)
    IN  /\ pc[p] = "idle"
        /\ Saves < MaxSaves
        /\ last' = call
        /\ folderExists' = after.exists
        /\ files' = after.files
        /\ assigned' = IF call.wrote
                       THEN Append(assigned, [proc |-> p, seq |-> call.seq])
                       ELSE assigned
        /\ UNCHANGED <<prefix, start, pc, seqOf, deletions>>
        /\ UNCHANGED <<cropVars, camVars, cfgVars>>

\* app.py: saved_name = save_frame_to_disk(roi, target_folder, class_name);
\* st.toast("Saved ...")
save_frame_to_disk == \E io \in IoOutcomes : DoSave(1, "cv2", io, FALSE)

\* data_collector.py: saved_name = save_frame(roi, ...); print("Saved ...")
save_frame == \E io \in IoOutcomes : DoSave(1, "cv2", io, FALSE)

\* data_collector_laptop.py: filename, seq = save_image(img_cropped, ...);
\* st.session_state.last_saved = filename
save_image == \E io \in IoOutcomes : DoSave(1, "pil", io, FALSE)

\* the stats line of every variant:
\* seq_num = get_next_sequence_number(target_folder, class_name)
Stats ==
    /\ pc[1] = "idle"
    /\ last' = [NoCall EXCEPT !.op = "resolve", !.proc = 1,
                  !.seq = get_next_sequence_number(folderExists, files, prefix),
                  !.pre = files, !.preExists = folderExists]
    /\ UNCHANGED <<prefix, folderExists, files, start, pc, seqOf, assigned, deletions>>
    /\ UNCHANGED <<cropVars, camVars, cfgVars>>

\* a file of the class folder is deleted from outside the program
ExternalDelete ==
    /\ deletions < MaxDeletes
    /\ \A p \in Procs : pc[p] = "idle"
    /\ \E f \in files :
         /\ files' = files \ {f}
         /\ deletions' = deletions + 1
         /\ last' = [NoCall EXCEPT !.op = "delete", !.name = f, !.pre = files,
                       !.preExists = folderExists]
    /\ UNCHANGED <<prefix, folderExists, start, pc, seqOf, assigned>>
    /\ UNCHANGED <<cropVars, camVars, cfgVars>>

(***************************************************************************)
(* Two processes saving into the same class folder: the scan for the       *)
(* maximum and the write are separate steps of each process.               *)
(***************************************************************************)
InFlight == {q \in Procs : pc[q] = "resolved"}

\* first half of save_frame_to_disk / save_image in process p: makedirs and
\* seq_num = get_next_sequence_number(folder, prefix)
SaveScan(p) ==
    /\ pc[p] = "idle"
    /\ Saves + Cardinality(InFlight) < MaxSaves
    /\ \E io \in {"ok", "mkdir_fails"} :
         LET r == SaveResolve(folderExists, files, prefix, io)
         IN  IF r.raised
             THEN /\ last' = SaveCall(p, folderExists, files, prefix, "cv2", io, FALSE)
                  /\ UNCHANGED <<folderExists, pc, seqOf>>
             ELSE /\ folderExists' = TRUE
                  /\ seqOf' = [seqOf EXCEPT ![p] = r.seq]
                  /\ pc' = [pc EXCEPT ![p] = "resolved"]
                  /\ UNCHANGED last
    /\ UNCHANGED <<prefix, files, start, assigned, deletions>>
    /\ UNCHANGED <<cropVars, camVars, cfgVars>>

\* second half in process p: the file name, the write, the return
SaveWrite(p) ==
    /\ pc[p] = "resolved"
    /\ \E writer \in {"cv2", "pil"}, io \in {"ok", "write_fails"} :
         LET w    == Write(writer, io, FALSE)
             name == CaptureFileName(prefix, seqOf[p])
         IN  /\ files' = IF w.wrote THEN files \cup {name} ELSE files
             /\ last' = [op |-> "save", proc |-> p, seq |-> seqOf[p], name |-> name,
                         wrote |-> w.wrote, raised |-> w.raised,
                         returned |-> ~w.raised, reported |-> ~w.raised,
                         pre |-> files, preExists |-> folderExists]
             /\ assigned' = IF w.wrote
                            THEN Append(assigned, [proc |-> p, seq |-> seqOf[p]])
                            ELSE assigned
    /\ pc' = [pc EXCEPT ![p] = "idle"]
    /\ UNCHANGED <<prefix, folderExists, start, seqOf, deletions>>
    /\ UNCHANGED <<cropVars, camVars, cfgVars>>

RaceNext == \E p \in Procs : SaveScan(p) \/ SaveWrite(p)

(***************************************************************************)
(* What the specification calls a capture file, stated without the code.   *)
(***************************************************************************)
\* the characters of an entry between "<prefix>_" and ".jpg"
Middle(name, pfx) == SubSeq(name, Len(pfx) + 2, Len(name) - Len(JpgExt))

\* an entry of the exact form <prefix>_<digits>.jpg
IsCaptureFile(name, pfx) ==
    /\ Len(name) > Len(pfx) + 1 + Len(JpgExt)
    /\ SubSeq(name, 1, Len(pfx)) = pfx
    /\ name[Len(pfx) + 1] = "_"
    /\ SubSeq(name, Len(name) - Len(JpgExt) + 1, Len(name)) = JpgExt
    /\ \A i \in (Len(pfx) + 2)..(Len(name) - Len(JpgExt)) : IsDigit(name[i])

CaptureSeq(name, pfx) == DigitsValue(Middle(name, pfx))

CaptureSeqs(entries, pfx) ==
    {CaptureSeq(f, pfx) : f \in {g \in entries : IsCaptureFile(g, pfx)}}

\* 1 for a missing folder or one without capture files, else 1 + the largest seq
ExpectedNext(exists, entries, pfx) ==
    IF ~exists \/ CaptureSeqs(entries, pfx) = {} THEN 1
    ELSE 1 + (CHOOSE m \in CaptureSeqs(entries, pfx) :
                 \A n \in CaptureSeqs(entries, pfx) : n <= m)

NoSharedSeq(entries, pfx) ==
    \A f, g \in entries :
        (IsCaptureFile(f, pfx) /\ IsCaptureFile(g, pfx) /\ f # g)
            => CaptureSeq(f, pfx) # CaptureSeq(g, pfx)

(***************************************************************************)
(* Claims about the sequence resolver and the capture writer.              *)
(***************************************************************************)
\* C1: for every folder state and prefix the resolver returns 1 when the
\* folder is missing or holds no capture file <prefix>_<seq>.jpg, else 1 + the
\* largest seq among the capture files, and the result is always >= 1.
C1_NextIsOnePlusMaxCapture ==
    last.op = "resolve" =>
        /\ last.seq >= 1
        /\ last.seq = ExpectedNext(last.preExists, last.pre, prefix)

\* C2: an entry that is not of the exact form <prefix>_<digits>.jpg never
\* changes the value the resolver returns for the folder.
C2_OnlyExactFormCounts ==
    last.op = "resolve" =>
        \A f \in last.pre :
            ~IsCaptureFile(f, prefix) =>
                last.seq = get_next_sequence_number(last.preExists, last.pre \ {f}, prefix)

C7_WriteFailurePropagates ==
    (last.op = "save" /\ ~last.wrote) =>
        /\ last.raised
        /\ ~last.returned
        /\ ~last.reported

\* C10: two processes saving into one class folder can be given the same
\* seq; they then write the same file name, so the two completed saves leave
\* one new file.  Every seq handed out twice went to two different processes,
\* its file is in the folder, and the folder gained exactly one file per
\* distinct seq.
C10_SameSeqLeavesOneFile ==
    /\ \A i, j \in 1..Len(assigned) :
           (i < j /\ assigned[i].seq = assigned[j].seq) =>
               /\ assigned[i].proc # assigned[j].proc
               /\ prefix \o <<"_">> \o Format04d(assigned[i].seq) \o JpgExt \in files
    /\ Cardinality(files \ start.files)
           = Cardinality({assigned[i].seq : i \in 1..Len(assigned)})

\* two processes have each completed a save with the same seq and the folder
\* holds one new file
C10_Witness ==
    /\ Len(assigned) = 2
    /\ assigned[1].seq = assigned[2].seq
    /\ assigned[1].proc # assigned[2].proc
    /\ \A p \in Procs : pc[p] = "idle"
    /\ Cardinality(files \ start.files) = 1

IntInputs == {0 - 10, 0, 10, 90, 170, 300, 640}

FrameSizes ==
    {[w |-> 1, h |-> 1], [w |-> 3, h |-> 2], [w |-> 200, h |-> 150],
     [w |-> 640, h |-> 480], [w |-> 1280, h |-> 960]}

\* cam_w, cam_h: st.number_input(min_value=100, ...)
CalibSizes == {[w |-> 100, h |-> 100], [w |-> 640, h |-> 480]}

NoRect == [mode |-> "none", x1 |-> 0, y1 |-> 0, x2 |-> 0, y2 |-> 0]

CropInit ==
    /\ roi \in [off_x : IntInputs, off_y : IntInputs, crop_w : IntInputs, crop_h : IntInputs]
    /\ frame \in FrameSizes
    /\ calib \in CalibSizes
    /\ rect = NoRect

\* app.py 172-176, data_collector.py 145-151:
\* x1 = min(off_x, w-1); y1 = min(off_y, h-1);
\* x2 = min(off_x + crop_w, w); y2 = min(off_y + crop_h, h)
UnscaledRect(r, fr) ==
    [mode |-> "unscaled",
     x1 |-> Min2(r.off_x, fr.w - 1),
     y1 |-> Min2(r.off_y, fr.h - 1),
     x2 |-> Min2(r.off_x + r.crop_w, fr.w),
     y2 |-> Min2(r.off_y + r.crop_h, fr.h)]

\* the values int(v * (actual / calibration)) can take in binary floating
\* point, for v >= 0: the floor of the exact quotient, and one less when the
\* quotient is an integer that the rounded scale can miss from below
ScaledInt(v, actual, calibration) ==
    LET q == (v * actual) \div calibration
    IN  IF actual % calibration # 0 /\ (v * actual) % calibration = 0 /\ q >= 1
        THEN {q - 1, q}
        ELSE {q}

\* safe_x = max(0, min(real_x, img_w - 1))
SafeOffset(real, img) == Max2(0, Min2(real, img - 1))

\* the extent clamped to the image size without the offset taken off
SafeExtentNoOffset(real, img, safe) == Max2(1, Min2(real, img))

\* safe_w = max(1, min(real_w, img_w - safe_x))
SafeExtent(real, img, safe) == Max2(1, Min2(real, img - safe))

\* the ROI widgets of data_collector_laptop.py 72-76 allow these values
LaptopInputsAllowed(r, cal) ==
    /\ r.crop_w >= 10 /\ r.crop_w <= cal.w
    /\ r.crop_h >= 10 /\ r.crop_h <= cal.h
    /\ r.off_x >= 0 /\ r.off_x <= cal.w
    /\ r.off_y >= 0 /\ r.off_y <= cal.h

\* data_collector_laptop.py 148-162 from the four scaled numbers
ScaledRect(real_x, real_y, real_w, real_h, img) ==
    LET safe_x == SafeOffset(real_x, img.w)
        safe_y == SafeOffset(real_y, img.h)
        safe_w == SafeExtent(real_w, img.w, safe_x)
        safe_h == SafeExtent(real_h, img.h, safe_y)
    IN  [mode |-> "scaled", x1 |-> safe_x, y1 |-> safe_y,
         x2 |-> safe_x + safe_w, y2 |-> safe_y + safe_h]

\* app.py / data_collector.py: the rectangle of one frame
CropUnscaled ==
    /\ rect' = UnscaledRect(roi, frame)
    /\ UNCHANGED <<roi, frame, calib>>
    /\ UNCHANGED <<fsVars, camVars, cfgVars>>

\* data_collector_laptop.py: the crop box of one snapshot
CropScaled ==
    /\ LaptopInputsAllowed(roi, calib)
    /\ \E real_x \in ScaledInt(roi.off_x, frame.w, calib.w),
          real_y \in ScaledInt(roi.off_y, frame.h, calib.h),
          real_w \in ScaledInt(roi.crop_w, frame.w, calib.w),
          real_h \in ScaledInt(roi.crop_h, frame.h, calib.h) :
         rect' = ScaledRect(real_x, real_y, real_w, real_h, frame)
    /\ UNCHANGED <<roi, frame, calib>>
    /\ UNCHANGED <<fsVars, camVars, cfgVars>>

CropNext == CropUnscaled \/ CropScaled

\* C4: in the unscaled variants the rectangle that is cropped lies inside the
\* frame and is at least 1x1 for every input the sidebar can supply.
C4_UnscaledRectInsideFrame ==
    rect.mode = "unscaled" =>
        /\ 0 <= rect.x1 /\ rect.x1 < rect.x2 /\ rect.x2 <= frame.w
        /\ 0 <= rect.y1 /\ rect.y1 < rect.y2 /\ rect.y2 <= frame.h

\* C5: in the scaled variant the crop box lies inside the image and is at
\* least 1x1 for every calibration size, image size and allowed ROI; for
\* calibration 640x480, image 1280x960 and ROI (170,90,300,300) it is
\* (340,180,940,780).
C5_ScaledRectInsideImage ==
    rect.mode = "scaled" =>
        /\ 0 <= rect.x1 /\ rect.x2 <= frame.w /\ rect.x2 - rect.x1 >= 1
        /\ 0 <= rect.y1 /\ rect.y2 <= frame.h /\ rect.y2 - rect.y1 >= 1
        /\ (/\ calib = [w |-> 640, h |-> 480]
            /\ frame = [w |-> 1280, h |-> 960]
            /\ roi = [off_x |-> 170, off_y |-> 90, crop_w |-> 300, crop_h |-> 300])
           => (rect.x1 = 340 /\ rect.y1 = 180 /\ rect.x2 = 940 /\ rect.y2 = 780)

\* the crop box of the 640x480 / 1280x960 example has been computed
C5_Witness ==
    /\ rect.mode = "scaled"
    /\ calib = [w |-> 640, h |-> 480]
    /\ frame = [w |-> 1280, h |-> 960]
    /\ roi = [off_x |-> 170, off_y |-> 90, crop_w |-> 300, crop_h |-> 300]
    /\ rect.x2 = 940 /\ rect.y2 = 780

(***************************************************************************)
(* Camera driving loops.                                                   *)
(***************************************************************************)
CamInit ==
    /\ camera_active = FALSE
    /\ cap = "None"
    /\ loop = "page"

\* sidebar settings of a session: the defaults, a zero width, a negative
\* offset, an offset beyond the frame
RoiSamples ==
    {[off_x |-> 170, off_y |-> 90, crop_w |-> 300, crop_h |-> 300],
     [off_x |-> 170, off_y |-> 90, crop_w |-> 0, crop_h |-> 300],
     [off_x |-> 0 - 10, off_y |-> 90, crop_w |-> 300, crop_h |-> 300],
     [off_x |-> 640, off_y |-> 90, crop_w |-> 300, crop_h |-> 300]}

\* the folder of a camera session: absent, empty, or holding one capture
LoopInit ==
    /\ prefix \in Prefixes
    /\ folderExists \in BOOLEAN
    /\ files \in IF folderExists THEN {{}, {CaptureFileName(prefix, MaxSeq)}} ELSE {{}}
    /\ start = [exists |-> folderExists, files |-> files]
    /\ pc = [p \in Procs |-> "idle"]
    /\ seqOf = [p \in Procs |-> 0]
    /\ last = NoCall
    /\ assigned = <<>>
    /\ deletions = 0
    /\ roi \in RoiSamples
    /\ frame \in FrameSizes
    /\ calib \in {[w |-> 640, h |-> 480]}
    /\ rect = NoRect
    /\ CamInit

\* length of the numpy slice a[i:j] of an axis of length n
SliceLen(i, j, n) ==
    LET norm(k) == IF k < 0 THEN Max2(k + n, 0) ELSE Min2(k, n)
    IN  Max2(0, norm(j) - norm(i))

\* roi = frame[y1:y2, x1:x2] holds no pixel
RoiEmpty(r, fr) == SliceLen(r.x1, r.x2, fr.w) = 0 \/ SliceLen(r.y1, r.y2, fr.h) = 0

\* the save of the cropped frame made by a camera loop, and its effect on the
\* folder
LoopSave(fr, io) ==
    LET r     == UnscaledRect(roi, fr)
        call  == SaveCall(1, folderExists, files, prefix, "cv2", io, RoiEmpty(r, fr))
        after == FolderAfter(call, folderExists, files)
    IN  /\ last' = call
        /\ folderExists' = after.exists
        /\ files' = after.files
        /\ assigned' = IF call.wrote
                       THEN Append(assigned, [proc |-> 1, seq |-> call.seq])
                       ELSE assigned

\* data_collector.py 108-137: the button handler opens the camera
StartCameraWindow ==
    /\ loop = "page"
    /\ \E openOk \in BOOLEAN :
         IF openOk
         THEN cap' = "Opened" /\ loop' = "running"
         ELSE cap' = "NotOpened" /\ loop' = "ended"
    /\ UNCHANGED <<camera_active>>
    /\ UNCHANGED <<fsVars, cropVars, cfgVars>>

\* data_collector.py 139-185: one pass of while True; a break runs
\* cap.release(), cv2.destroyAllWindows() and st.rerun()
LoopIteration ==
    /\ loop = "running"
    /\ \E ret \in BOOLEAN, fr \in FrameSizes, key \in {"q", "s", "other"},
          io \in IoOutcomes :
         IF ~ret
         THEN /\ cap' = "Released" /\ loop' = "ended"
              /\ UNCHANGED <<frame, rect>>
              /\ UNCHANGED <<folderExists, files, last, assigned>>
         ELSE /\ frame' = fr
              /\ rect' = UnscaledRect(roi, fr)
              /\ CASE key = "q" ->
                        /\ cap' = "Released" /\ loop' = "ended"
                        /\ UNCHANGED <<folderExists, files, last, assigned>>
                   [] key = "s" ->
                        /\ Saves < MaxSaves
                        /\ LoopSave(fr, io)
                        /\ loop' = IF last'.raised THEN "raised" ELSE "running"
                        /\ cap' = cap
                   [] OTHER ->
                        /\ UNCHANGED <<cap, loop>>
                        /\ UNCHANGED <<folderExists, files, last, assigned>>
    /\ UNCHANGED <<camera_active, roi, calib, prefix, start, pc, seqOf, deletions>>
    /\ UNCHANGED cfgVars

\* the page is run again after the handler ended (st.rerun() or a click)
PageRerun ==
    /\ loop = "ended"
    /\ loop' = "page"
    /\ cap' = "None"
    /\ UNCHANGED <<camera_active>>
    /\ UNCHANGED <<fsVars, cropVars, cfgVars>>

NativeNext == StartCameraWindow \/ LoopIteration \/ PageRerun

\* app.py 147-217: one run of the script from the toggle button on.  event is
\* what caused the run: the toggle button, the CAPTURE button, or anything
\* else (st.rerun(), another widget)
ScriptRun ==
    \E event \in {"toggle", "capture", "other"}, openOk \in BOOLEAN,
       readOk \in BOOLEAN, fr \in FrameSizes, io \in IoOutcomes :
        LET active1 == IF event = "toggle" THEN ~camera_active ELSE camera_active
            cap1    == IF event = "toggle" /\ ~active1 /\ cap # "None"
                       THEN "None" ELSE cap
            cap2    == IF cap1 \in {"None", "NotOpened"}
                       THEN (IF openOk THEN "Opened" ELSE "NotOpened")
                       ELSE cap1
            ret     == cap2 = "Opened" /\ readOk
        IN  /\ event = "capture" => (camera_active /\ Saves < MaxSaves)
            /\ IF ~active1
               THEN /\ camera_active' = FALSE
                    /\ cap' = cap1
                    /\ loop' = "ended"
                    /\ UNCHANGED <<frame, rect, folderExists, files, last, assigned>>
               ELSE IF ~ret
               THEN /\ camera_active' = FALSE
                    /\ cap' = cap2
                    /\ loop' = "ended"
                    /\ UNCHANGED <<frame, rect, folderExists, files, last, assigned>>
               ELSE /\ camera_active' = TRUE
                    /\ cap' = cap2
                    /\ frame' = fr
                    /\ rect' = UnscaledRect(roi, fr)
                    /\ IF event = "capture"
                       THEN /\ LoopSave(fr, io)
                            /\ loop' = IF last'.raised THEN "raised" ELSE "ended"
                       ELSE /\ loop' = "ended"
                            /\ UNCHANGED <<folderExists, files, last, assigned>>
            /\ UNCHANGED <<roi, calib, prefix, start, pc, seqOf, deletions>>
            /\ UNCHANGED cfgVars

RerunNext == ScriptRun

\* C6: in the native loop every way out of the capture loop - the quit key,
\* a failed read, an error raised while cropping or saving - has run
\* cap.release(): an opened handle is never left unreleased.
C6_NativeLoopAlwaysReleases ==
    loop \in {"ended", "raised"} => cap # "Opened"

\* C9: in the rerun loop, whenever camera_active is false at the end of a
\* script run the session holds no unreleased camera handle.
C9_InactiveSessionHoldsNoCamera ==
    ~camera_active => cap # "Opened"

(***************************************************************************)
(* Configuration file (app.py).  config.json is a sequence of JSON tokens. *)
(***************************************************************************)
P(c) == [t |-> "punct", s |-> c, n |-> 0]

Str(x) == [t |-> "str", s |-> x, n |-> 0]

Num(x) == [t |-> "num", s |-> "", n |-> x]

Absent == [t |-> "absent", s |-> "", n |-> 0]

IsScalar(tok) == tok.t \in {"num", "str"}

\* the keys of current_config in the order json.dump writes them
KeyOrder == <<"crop_w", "crop_h", "off_x", "off_y", "cam_index">>

Keys == {KeyOrder[i] : i \in 1..Len(KeyOrder)}

\* keys a JSON object of the model can hold
AllKeys == Keys \cup {"note"}

EmptyDict == [k \in AllKeys |-> Absent]

\* the dictionary load_config returns when it falls back (app.py 21-25)
Defaults == [crop_w |-> 300, crop_h |-> 300, off_x |-> 170, off_y |-> 90, cam_index |-> 0]

\* no config.json
NoFile == [exists |-> FALSE, toks |-> <<>>, dumped |-> FALSE, of |-> Defaults]

\* a Python dict of five integers as a loaded JSON value
AsDict(c) == [k \in AllKeys |-> IF k \in Keys THEN Num(c[k]) ELSE Absent]

RECURSIVE DumpPairs(_, _)
DumpPairs(c, ks) ==
    IF ks = <<>> THEN <<>>
    ELSE <<Str(Head(ks)), P(":"), Num(c[Head(ks)])>>
         \o (IF Len(ks) > 1 THEN <<P(",")>> ELSE <<>>)
         \o DumpPairs(c, Tail(ks))

\* json.dump(config, f, indent=4)
JsonDump(c) == <<P("{")>> \o DumpPairs(c, KeyOrder) \o <<P("}")>>

ParseFail == [ok |-> FALSE, kind |-> "none", obj |-> EmptyDict]

RECURSIVE ParsePairs(_)
\* "key": scalar pairs separated by commas; a repeated key keeps the later value
ParsePairs(ts) ==
    IF Len(ts) < 3 THEN ParseFail
    ELSE IF ts[1].t # "str" \/ ts[1].s \notin AllKeys \/ ts[2] # P(":") \/ ~IsScalar(ts[3])
    THEN ParseFail
    ELSE IF Len(ts) = 3
    THEN [ok |-> TRUE, kind |-> "object", obj |-> [EmptyDict EXCEPT ![ts[1].s] = ts[3]]]
    ELSE IF ts[4] # P(",") THEN ParseFail
    ELSE LET rest == ParsePairs(SubSeq(ts, 5, Len(ts)))
         IN  IF ~rest.ok THEN ParseFail
             ELSE [ok |-> TRUE, kind |-> "object",
                   obj |-> [k \in AllKeys |->
                              IF rest.obj[k] # Absent THEN rest.obj[k]
                              ELSE IF k = ts[1].s THEN ts[3] ELSE Absent]]

RECURSIVE ParseItems(_)
\* scalars separated by commas
ParseItems(ts) ==
    IF ts = <<>> \/ ~IsScalar(ts[1]) THEN FALSE
    ELSE IF Len(ts) = 1 THEN TRUE
    ELSE ts[2] = P(",") /\ ParseItems(SubSeq(ts, 3, Len(ts)))

\* json.load(f): ok = FALSE stands for json.JSONDecodeError
JsonLoad(toks) ==
    LET n     == Len(toks)
        inner == SubSeq(toks, 2, n - 1)
    IN  IF n = 0 THEN ParseFail
        ELSE IF n = 1
        THEN (IF IsScalar(toks[1])
              THEN [ok |-> TRUE, kind |-> toks[1].t, obj |-> EmptyDict]
              ELSE ParseFail)
        ELSE IF toks[1] = P("[") /\ toks[n] = P("]")
        THEN (IF inner = <<>> \/ ParseItems(inner)
              THEN [ok |-> TRUE, kind |-> "array", obj |-> EmptyDict]
              ELSE ParseFail)
        ELSE IF toks[1] = P("{") /\ toks[n] = P("}")
        THEN (IF inner = <<>> THEN [ok |-> TRUE, kind |-> "object", obj |-> EmptyDict]
              ELSE ParsePairs(inner))
        ELSE ParseFail

\* load_config(): the parsed file, or the defaults when the file is missing
\* or json.load raised
load_config(file) ==
    IF file.exists
    THEN LET r == JsonLoad(file.toks)
         IN  IF r.ok THEN [kind |-> r.kind, obj |-> r.obj]
             ELSE [kind |-> "object", obj |-> AsDict(Defaults)]
    ELSE [kind |-> "object", obj |-> AsDict(Defaults)]

\* save_config(config)
save_config(c) == [exists |-> TRUE, toks |-> JsonDump(c), dumped |-> TRUE, of |-> c]

\* config.get(key, default) followed by st.number_input(value=...): config.get
\* raises AttributeError unless config is a dict, number_input raises on a
\* value that is no number
WidgetDefault(config, k) ==
    IF config.kind # "object" THEN [raised |-> TRUE, val |-> 0]
    ELSE IF config.obj[k] = Absent THEN [raised |-> FALSE, val |-> Defaults[k]]
    ELSE IF config.obj[k].t # "num" THEN [raised |-> TRUE, val |-> 0]
    ELSE [raised |-> FALSE, val |-> config.obj[k].n]

\* values a user types into a sidebar number box
CfgValues == {0, 90}

\* number of runs caused by an edited number box
MaxEdits == 2

\* number of times config.json is damaged from outside
MaxDamages == 2

NotRun == [startup |-> "not_run", loaded |-> [kind |-> "none", obj |-> EmptyDict],
           from |-> NoFile, current |-> Defaults]

CfgInit ==
    /\ config_file \in {NoFile, save_config(Defaults)}
    /\ cfg = NotRun
    /\ edits = 0
    /\ damages = 0

\* app.py 96-130: load the configuration, build the sidebar from it, write
\* config.json when the sidebar differs from what was loaded.  edit is the
\* number box the user changed to cause this run, if any
ConfigSection ==
    /\ UNCHANGED <<fsVars, cropVars, camVars>>
    /\ \E edit \in {[key |-> "none", val |-> 0]} \cup [key : Keys, val : CfgValues] :
        LET config  == load_config(config_file)
            raises  == \E k \in Keys : WidgetDefault(config, k).raised
            current == [k \in Keys |->
                          IF k = edit.key THEN edit.val ELSE WidgetDefault(config, k).val]
        IN  /\ edit.key # "none" => edits < MaxEdits
            /\ edits' = IF edit.key # "none" THEN edits + 1 ELSE edits
            /\ UNCHANGED damages
            /\ IF raises
               THEN /\ cfg' = [startup |-> "failed", loaded |-> config,
                               from |-> config_file, current |-> Defaults]
                    /\ UNCHANGED config_file
               ELSE /\ cfg' = [startup |-> "ok", loaded |-> config,
                               from |-> config_file, current |-> current]
                    /\ config_file' = IF AsDict(current) # config.obj
                                      THEN save_config(current)
                                      ELSE config_file

\* contents config.json can be left with from outside the program: a cut-off
\* write, an empty file, another JSON document
CorruptContents(toks) ==
    {SubSeq(toks, 1, n) : n \in 0..(Len(toks) - 1)}
        \cup {<<P("["), P("]")>>,
              <<P("["), Num(300), P(","), Num(300), P("]")>>,
              <<Num(300)>>,
              <<P("{"), Str("crop_w"), P(":"), Str("wide"), P("}")>>,
              <<P("{"), Str("crop_w"), P(":"), Num(90), P("}")>>,
              <<P("{"), P("}")>>,
              <<P("{"), Str("crop_w"), P(":"), P("}")>>}

\* config.json is damaged or removed between two runs
CorruptFile ==
    /\ \/ \E toks \in CorruptContents(config_file.toks) :
             config_file' = [exists |-> TRUE, toks |-> toks, dumped |-> FALSE, of |-> Defaults]
       \/ config_file' = NoFile
    /\ damages < MaxDamages
    /\ damages' = damages + 1
    /\ UNCHANGED <<cfg, edits>>
    /\ UNCHANGED <<fsVars, cropVars, camVars>>

CfgNext == ConfigSection \/ CorruptFile

\* a file that holds a configuration: an object whose values are all numbers
UsableConfig(file) ==
    /\ file.exists
    /\ Len(file.toks) >= 2
    /\ file.toks[1] = P("{") /\ file.toks[Len(file.toks)] = P("}")
    /\ JsonLoad(file.toks).ok
    /\ \A k \in AllKeys : JsonLoad(file.toks).obj[k].t \in {"num", "absent"}

\* C8: load_config never raises and never makes start-up fail; after
\* save_config(c) it returns the five fields of c; a missing or corrupt
\* config.json gives the defaults.
C8_LoadConfigNeverFails ==
    /\ cfg.startup # "failed"
    /\ (cfg.startup = "ok" /\ ~UsableConfig(cfg.from))
           => (cfg.loaded.kind = "object" /\ cfg.loaded.obj = AsDict(Defaults))
    /\ (cfg.startup # "not_run" /\ cfg.from.dumped)
           => (/\ cfg.loaded.kind = "object"
               /\ \A k \in Keys : cfg.loaded.obj[k] = Num(cfg.from.of[k]))

(***************************************************************************)
(* Specifications.  Each one starts the parts it does not exercise in a    *)
(* fixed state.                                                            *)
(***************************************************************************)
FsIdle ==
    /\ prefix = <<"o">>
    /\ folderExists = FALSE
    /\ files = {}
    /\ start = [exists |-> FALSE, files |-> {}]
    /\ pc = [p \in Procs |-> "idle"]
    /\ seqOf = [p \in Procs |-> 0]
    /\ last = NoCall
    /\ assigned = <<>>
    /\ deletions = 0

CropIdle ==
    /\ roi = [off_x |-> 170, off_y |-> 90, crop_w |-> 300, crop_h |-> 300]
    /\ frame = [w |-> 640, h |-> 480]
    /\ calib = [w |-> 640, h |-> 480]
    /\ rect = NoRect

CfgIdle ==
    /\ config_file = NoFile
    /\ cfg = NotRun
    /\ edits = 0
    /\ damages = 0

\* one process: the resolver, the three save routines, external deletions
Init == FsInit /\ CropIdle /\ CamInit /\ CfgIdle

Next == save_frame_to_disk \/ save_frame \/ save_image \/ Stats \/ ExternalDelete

Spec == Init /\ [][Next]_vars

\* two processes saving into one class folder that holds capture files only
InitRace == Init /\ files \subseteq CaptureNames(prefix)

SpecRace == InitRace /\ [][RaceNext]_vars

\* the two crop rectangle computations on drawn inputs
InitCrop == FsIdle /\ CropInit /\ CamInit /\ CfgIdle

SpecCrop == InitCrop /\ [][CropNext]_vars

\* data_collector.py: the native blocking loop
InitLoop == LoopInit /\ CfgIdle

SpecNative == InitLoop /\ [][NativeNext]_vars

\* app.py: the rerun loop
SpecRerun == InitLoop /\ [][RerunNext]_vars

\* app.py: the configuration file
InitCfg == FsIdle /\ CropIdle /\ CamInit /\ CfgInit

SpecCfg == InitCfg /\ [][CfgNext]_vars

====
